---- MODULE Spec2Model ----
(***************************************************************************)
(* TaskQueue (src/services/queue/taskQueue.ts): a priority queue of        *)
(* generation tasks with a concurrency ceiling, driven by a polling        *)
(* processQueue pass and by the settling of the work callback.             *)
(*                                                                         *)
(* Node runs the class on one thread: every method body and every          *)
(* continuation after an await runs to completion, so each is one action.  *)
(* Environment: Date.now() never goes backwards, and Math.random() yields  *)
(* a suffix that no task created in the same millisecond carries (which    *)
(* one is immaterial; the model takes the least unused).  No component     *)
(* other than the queue writes to a task object.                           *)
(***************************************************************************)
EXTENDS Integers, Sequences, FiniteSets, TLC

\* Bounds of the model.
MaxTasks == 2        \* addTask calls in one behaviour
MaxTime == 1         \* Date.now() ranges over 0..MaxTime
MaxTimers == 2       \* outstanding setTimeout callbacks
maxConcurrent == 1   \* config.queue.maxConcurrent
MaxSubmits == 2      \* submit_task calls of the TaskManager in one behaviour
max_concurrent == 1  \* TaskManager(max_concurrent)
max_retries == 1     \* TaskManager(max_retries)

\* config.queue.maxQueueSize: any number the configuration gives (100 in
\* the sample config.yaml); here one below the number of addTask calls.
maxQueueSize == 1

Priorities == {"high", "medium", "low"}
Statuses == {"pending", "processing", "completed", "failed"}

\* A field that is undefined in the TypeScript object.
Undefined == "undefined"

\* startedAt and completedAt once assigned new Date(): nothing in the queue
\* reads the value, so the model keeps only that the field holds a Date.
\* createdAt, which sortQueue compares, keeps its value.
SomeDate == "Date"

\* What the work callback can reject with: an Error carrying a message, or
\* a value that is not an Error instance (a string, a plain object).
Rejections ==
  { [isError |-> TRUE, message |-> "upstream timeout"],
    [isError |-> FALSE, message |-> "upstream timeout"] }

\* What the work callback stores in task.result before it resolves.
Results == {"post"}

VARIABLES
  queue,       \* this.queue: the task objects, in array order
  processing,  \* this.processing: Set of task ids
  running,     \* this.running
  timers,      \* pending setTimeout(() => this.processQueue(), 1000) callbacks
  now,         \* the value Date.now() returned last
  awaiting,    \* task objects whose processTask is suspended at the await
  admitted,    \* the task objects handed to processTask, in call order
  rejections,  \* what the callback of each failed task rejected with
  held,        \* the last value getTask returned to a caller
  emitted,     \* the 'taskCompleted' events emitted, by task object
  caught,      \* task objects whose processTask promise rejected (line 88)
  returned,    \* the ids addTask returned to its callers, in call order
  tasks,       \* TaskManager.tasks: task_id -> TaskInfo
  semaphore,   \* free permits of TaskManager.semaphore
  execution,   \* where each _execute_task coroutine stands, and its retries
  cancelled    \* the task ids for which cancel_task returned True

vars ==
  <<queue, processing, running, timers, now, awaiting, admitted, rejections,
    held, emitted, caught, returned, tasks, semaphore, execution, cancelled>>

\* The state of the Python TaskManager (task-manager.txt).
managerVars == <<tasks, semaphore, execution, cancelled>>

\* The value getTask has not returned yet / returned for an unknown id.
NoHandle == [asked |-> <<>>, found |-> FALSE, ref |-> 0, snap |-> <<>>]

\* Object identity of a task: the k-th object addTask allocated.
Oids(q) == {q[i].oid : i \in 1..Len(q)}
IndexOf(q, o) == CHOOSE i \in 1..Len(q) : q[i].oid = o
TaskOf(q, o) == q[IndexOf(q, o)]

\* priorityValues of sortQueue.
priorityValues(p) ==
  CASE p = "high" -> 3
    [] p = "medium" -> 2
    [] p = "low" -> 1

\* The comparator with the priorities the wrong way round: low first.
compareTasksAscending(a, b) ==
  LET priorityDiff == priorityValues(a.priority) - priorityValues(b.priority)
  IN IF priorityDiff # 0 THEN priorityDiff ELSE a.createdAt - b.createdAt

\* The comparator handed to Array.prototype.sort.
compareTasks(a, b) ==
  LET priorityDiff == priorityValues(b.priority) - priorityValues(a.priority)
  IN IF priorityDiff # 0 THEN priorityDiff ELSE a.createdAt - b.createdAt

\* A sort that is not stable: an element goes before its equals.
RECURSIVE InsertSortedUnstable(_, _)
InsertSortedUnstable(sorted, t) ==
  IF sorted = <<>> THEN <<t>>
  ELSE IF compareTasks(Head(sorted), t) >= 0 THEN <<t>> \o sorted
  ELSE <<Head(sorted)>> \o InsertSortedUnstable(Tail(sorted), t)

\* Array.prototype.sort is stable (ES2019, tsconfig target ES2020): an
\* element goes before the first element that compares greater than it.
RECURSIVE InsertSorted(_, _)
InsertSorted(sorted, t) ==
  IF sorted = <<>> THEN <<t>>
  ELSE IF compareTasks(Head(sorted), t) > 0 THEN <<t>> \o sorted
  ELSE <<Head(sorted)>> \o InsertSorted(Tail(sorted), t)

\* A queue left in submission order.
sortQueueSkipped(q) == q

RECURSIVE sortQueue(_)
sortQueue(q) ==
  IF q = <<>> THEN <<>>
  ELSE InsertSorted(sortQueue(SubSeq(q, 1, Len(q) - 1)), q[Len(q)])

\* find(task => task.status !== 'processing'): a finished task is picked
\* again.
FirstNotProcessing(q) ==
  IF \E i \in 1..Len(q) : q[i].status # "processing"
  THEN CHOOSE i \in 1..Len(q) :
         /\ q[i].status # "processing"
         /\ \A j \in 1..(i - 1) : q[j].status = "processing"
  ELSE 0

\* A pass that looks at the head of the queue only.
FirstPendingAtHead(q) ==
  IF q # <<>> /\ q[1].status = "pending" THEN 1 ELSE 0

\* this.queue.find(task => task.status === 'pending'): index of the first
\* pending task, 0 when there is none.
FirstPending(q) ==
  IF \E i \in 1..Len(q) : q[i].status = "pending"
  THEN CHOOSE i \in 1..Len(q) :
         /\ q[i].status = "pending"
         /\ \A j \in 1..(i - 1) : q[j].status # "pending"
  ELSE 0

\* The loop condition with <= for <: one task too many is admitted.
CanProcessMoreOffByOne(q, proc) ==
  Cardinality(proc) <= maxConcurrent /\ Len(q) > 0

\* The loop condition of processQueue.
CanProcessMore(q, proc) == Cardinality(proc) < maxConcurrent /\ Len(q) > 0

\* The while loop of processQueue: admits tasks until the ceiling is reached
\* or no pending task is left; each admitted task is marked, added to the
\* processing set and handed to processTask.
RECURSIVE processQueueLoop(_, _, _)
processQueueLoop(q, proc, adm) ==
  IF CanProcessMore(q, proc) /\ FirstPending(q) # 0
  THEN LET i == FirstPending(q)
       IN processQueueLoop(
            [q EXCEPT ![i].status = "processing", ![i].startedAt = SomeDate],
            proc \cup {q[i].id},
            Append(adm, q[i].oid))
  ELSE [queue |-> q, processing |-> proc, admitted |-> adm]

\* The objects a pass handed to processTask.
NewlyAdmitted(before, after) ==
  {after[k] : k \in (Len(before) + 1)..Len(after)}

\* A pass whose finally block sets no timer.
runPassWithoutTimer(pendingTimers) ==
  LET r == processQueueLoop(queue, processing, admitted)
  IN /\ queue' = r.queue
     /\ processing' = r.processing
     /\ admitted' = r.admitted
     /\ awaiting' = awaiting \cup NewlyAdmitted(admitted, r.admitted)
     /\ timers' = pendingTimers

\* The try/finally of processQueue: the loop, then the finally block
\* schedules the next pass.  pendingTimers counts the timers outstanding
\* when the pass began.
runPass(pendingTimers) ==
  LET r == processQueueLoop(queue, processing, admitted)
  IN /\ queue' = r.queue
     /\ processing' = r.processing
     /\ admitted' = r.admitted
     /\ awaiting' = awaiting \cup NewlyAdmitted(admitted, r.admitted)
     /\ timers' = pendingTimers + 1

\* processQueue without its first line: a pass runs on a stopped queue.
processQueueUnguarded(isRunning, pendingTimers) == runPass(pendingTimers)

\* processQueue(): returns at once when the queue is not running.
processQueue(isRunning, pendingTimers) ==
  IF ~isRunning
  THEN /\ timers' = pendingTimers
       /\ UNCHANGED <<queue, processing, awaiting, admitted>>
  ELSE runPass(pendingTimers)

Init ==
  /\ queue = <<>>
  /\ processing = {}
  /\ running = FALSE
  /\ timers = 0
  /\ now = 0
  /\ awaiting = {}
  /\ admitted = <<>>
  /\ rejections = <<>>
  /\ held = NoHandle
  /\ emitted = <<>>
  /\ caught = {}
  /\ returned = <<>>
  /\ tasks = <<>>
  /\ semaphore = max_concurrent
  /\ execution = <<>>
  /\ cancelled = {}

\* start(): sets running and calls processQueue synchronously.
Start ==
  /\ timers < MaxTimers
  /\ running' = TRUE
  /\ processQueue(TRUE, timers)
  /\ UNCHANGED <<now, rejections, held, returned, managerVars, emitted,
                 caught>>

\* stop()
Stop ==
  /\ running' = FALSE
  /\ UNCHANGED <<queue, processing, timers, now, awaiting, admitted,
                 rejections, held, returned, managerVars, emitted, caught>>

\* Date.now() / new Date(): any millisecond not before the last one read.
DateNow == now..MaxTime

\* Math.random().toString(36).substr(2, 9): a suffix not used in
\* millisecond t.
RandomSuffix(t) ==
  1 + Cardinality({i \in 1..Len(queue) : queue[i].id[1] = t})

\* An id made of the timestamp alone.
newTaskIdFromTimestamp(t, suffix) == <<t, 1>>

\* `task_${Date.now()}_${Math.random().toString(36).substr(2, 9)}`
newTaskId(t, suffix) == <<t, suffix>>

\* The task object addTask builds: the caller's fields, then id, status
\* and createdAt.
NewTask(task, t, suffix) ==
  [oid |-> Len(queue) + 1,
   id |-> newTaskId(t, suffix),
   topic |-> task.topic,
   keywords |-> task.keywords,
   priority |-> task.priority,
   status |-> "pending",
   createdAt |-> t,
   startedAt |-> Undefined,
   completedAt |-> Undefined,
   error |-> Undefined,
   result |-> Undefined]

\* addTask followed by a scheduling pass of its own.
addTaskAndProcess(task, t, suffix) ==
  LET added == sortQueue(Append(queue, NewTask(task, t, suffix)))
      r == IF running
           THEN processQueueLoop(added, processing, admitted)
           ELSE [queue |-> added, processing |-> processing,
                 admitted |-> admitted]
  IN /\ queue' = r.queue
     /\ processing' = r.processing
     /\ admitted' = r.admitted
     /\ awaiting' = awaiting \cup NewlyAdmitted(admitted, r.admitted)
     /\ now' = t
     /\ returned' = Append(returned, newTaskId(t, suffix))
     /\ UNCHANGED <<running, timers, rejections, held, emitted, caught,
                    managerVars>>

\* addTask(task): task holds what the caller passes (topic, keywords,
\* priority); the id is built from Date.now(), read as t, and a random
\* suffix.  'taskAdded' is emitted to no listener.
addTask(task, t, suffix) ==
  /\ queue' = sortQueue(Append(queue, NewTask(task, t, suffix)))
  /\ now' = t
  /\ returned' = Append(returned, newTaskId(t, suffix))
  /\ UNCHANGED <<processing, running, timers, awaiting, admitted,
                 rejections, held, emitted, caught, managerVars>>

\* The request bodies a client may post: the topic missing, empty or
\* given, the keywords empty or not.
Bodies ==
  [topic : {Undefined, "", "ai blogging"},
   keywords : {<<>>, <<"seo">>},
   priority : Priorities]

\* generateContentSchema.parse accepts the body: topic is a string of at
\* least one character and keywords an array of at least one string.
generateContentSchema(body) ==
  /\ body.topic # Undefined
  /\ body.topic # ""
  /\ Len(body.keywords) >= 1

\* POST /api/content/generate: a body the schema rejects is answered with
\* 400 and addTask is not called.
PostGenerate(body, t) ==
  /\ Len(queue) < MaxTasks
  /\ IF generateContentSchema(body)
     THEN addTask(body, t, RandomSuffix(t))
     ELSE UNCHANGED vars

\* addTask called by a component other than the route.
DirectAddTask(task, t) ==
  /\ Len(queue) < MaxTasks
  /\ addTask(task, t, RandomSuffix(t))

\* A timer set by processQueue fires: processQueue runs again.
TimerFire ==
  /\ timers > 0
  /\ processQueue(running, timers - 1)
  /\ UNCHANGED <<running, now, rejections, held, returned, managerVars,
            emitted, caught>>

\* this.emit('taskCompleted', task): the event log after the emit.  An
\* entry keeps how often the event was emitted for the task object, what
\* the task held then and whether its id was still in the processing set.
emitTaskCompleted(o, task, proc) ==
  [x \in DOMAIN emitted \cup {o} |->
     IF x = o
     THEN [count |-> IF o \in DOMAIN emitted THEN emitted[o].count + 1 ELSE 1,
           task |-> task,
           slotHeld |-> task.id \in proc]
     ELSE emitted[x]]

\* String(error) for error.message: an Error gains the "Error: " prefix.
errorMessageToString(e) ==
  IF e.isError THEN "Error: upstream timeout" ELSE e.message

\* error instanceof Error ? error.message : 'Unknown error'
errorMessage(e) == IF e.isError THEN e.message ELSE "Unknown error"

\* The catch path putting the task back for another try.
TaskRejectedRetry(o, e) ==
  LET i == IndexOf(queue, o)
  IN /\ o \in awaiting
     /\ queue' = [queue EXCEPT ![i].status = "pending",
                               ![i].error = errorMessage(e)]
     /\ processing' = processing \ {queue[i].id}
     /\ awaiting' = awaiting \ {o}
     /\ rejections' = [x \in DOMAIN rejections \cup {o} |->
                         IF x = o THEN e ELSE rejections[x]]
     /\ emitted' = emitTaskCompleted(o, queue'[i], processing')
     /\ UNCHANGED <<running, timers, now, admitted, held, returned,
            managerVars, caught>>

\* The rejection escaping into the scheduler: the polling chain is lost.
TaskRejectedHaltsLoop(o, e) ==
  LET i == IndexOf(queue, o)
  IN /\ o \in awaiting
     /\ queue' = [queue EXCEPT ![i].status = "failed",
                               ![i].error = errorMessage(e),
                               ![i].completedAt = SomeDate]
     /\ processing' = processing \ {queue[i].id}
     /\ awaiting' = awaiting \ {o}
     /\ rejections' = [x \in DOMAIN rejections \cup {o} |->
                         IF x = o THEN e ELSE rejections[x]]
     /\ timers' = 0
     /\ emitted' = emitTaskCompleted(o, queue'[i], processing')
     /\ UNCHANGED <<running, now, admitted, held, returned, managerVars,
                    caught>>

\* The finally block emitting before it deletes: observers see the slot
\* still taken.
TaskResolvedEmitFirst(o, res) ==
  LET i == IndexOf(queue, o)
  IN /\ o \in awaiting
     /\ queue' = [queue EXCEPT ![i].result = res,
                               ![i].status = "completed",
                               ![i].completedAt = SomeDate]
     /\ processing' = processing \ {queue[i].id}
     /\ awaiting' = awaiting \ {o}
     /\ emitted' = emitTaskCompleted(o, queue'[i], processing)
     /\ UNCHANGED <<running, timers, now, admitted, rejections, held,
            returned, managerVars, caught>>

\* A success path that drops the finished task from the queue.
TaskResolvedRemoves(o, res) ==
  LET i == IndexOf(queue, o)
      done == [queue[i] EXCEPT !.result = res, !.status = "completed",
                               !.completedAt = SomeDate]
  IN /\ o \in awaiting
     /\ queue' = SelectSeq(queue, LAMBDA t : t.oid # o)
     /\ processing' = processing \ {queue[i].id}
     /\ awaiting' = awaiting \ {o}
     /\ emitted' = emitTaskCompleted(o, done, processing')
     /\ UNCHANGED <<running, timers, now, admitted, rejections, held,
                    returned, managerVars, caught>>

\* A success path that leaves the id in the processing set.
TaskResolvedKeepsSlot(o, res) ==
  LET i == IndexOf(queue, o)
  IN /\ o \in awaiting
     /\ queue' = [queue EXCEPT ![i].result = res,
                               ![i].status = "completed",
                               ![i].completedAt = SomeDate]
     /\ awaiting' = awaiting \ {o}
     /\ emitted' = emitTaskCompleted(o, queue'[i], processing)
     /\ UNCHANGED <<processing, running, timers, now, admitted, rejections,
                    held, returned, managerVars, caught>>

\* The success path without the write of completedAt.
TaskResolvedNoTimestamp(o, res) ==
  LET i == IndexOf(queue, o)
  IN /\ o \in awaiting
     /\ queue' = [queue EXCEPT ![i].result = res,
                               ![i].status = "completed"]
     /\ processing' = processing \ {queue[i].id}
     /\ awaiting' = awaiting \ {o}
     /\ emitted' = emitTaskCompleted(o, queue'[i], processing')
     /\ UNCHANGED <<running, timers, now, admitted, rejections, held,
            returned, managerVars, caught>>

\* processTask after the await, the callback having resolved.
TaskResolved(o, res) ==
  LET i == IndexOf(queue, o)
  IN /\ o \in awaiting
     /\ queue' = [queue EXCEPT ![i].result = res,
                               ![i].status = "completed",
                               ![i].completedAt = SomeDate]
     /\ processing' = processing \ {queue[i].id}
     /\ awaiting' = awaiting \ {o}
     /\ emitted' = emitTaskCompleted(o, queue'[i], processing')
     /\ UNCHANGED <<running, timers, now, admitted, rejections, held,
            returned, managerVars, caught>>

\* The catch path without the finally block: the slot is never released.
TaskRejectedNoRelease(o, e) ==
  LET i == IndexOf(queue, o)
  IN /\ o \in awaiting
     /\ queue' = [queue EXCEPT ![i].status = "failed",
                               ![i].error = errorMessage(e),
                               ![i].completedAt = SomeDate]
     /\ awaiting' = awaiting \ {o}
     /\ rejections' = [x \in DOMAIN rejections \cup {o} |->
                         IF x = o THEN e ELSE rejections[x]]
     /\ emitted' = emitTaskCompleted(o, queue'[i], processing)
     /\ UNCHANGED <<processing, running, timers, now, admitted, held,
            returned, managerVars, caught>>

\* A callback that stores a result and then rejects.
TaskRejectedWithResult(o, e) ==
  LET i == IndexOf(queue, o)
  IN /\ o \in awaiting
     /\ queue' = [queue EXCEPT ![i].result = "post",
                               ![i].status = "failed",
                               ![i].error = errorMessage(e),
                               ![i].completedAt = SomeDate]
     /\ processing' = processing \ {queue[i].id}
     /\ awaiting' = awaiting \ {o}
     /\ rejections' = [x \in DOMAIN rejections \cup {o} |->
                         IF x = o THEN e ELSE rejections[x]]
     /\ emitted' = emitTaskCompleted(o, queue'[i], processing')
     /\ UNCHANGED <<running, timers, now, admitted, held, returned,
            managerVars, caught>>

\* processTask after the await, the callback having rejected with e.
TaskRejected(o, e) ==
  LET i == IndexOf(queue, o)
  IN /\ o \in awaiting
     /\ queue' = [queue EXCEPT ![i].status = "failed",
                               ![i].error = errorMessage(e),
                               ![i].completedAt = SomeDate]
     /\ processing' = processing \ {queue[i].id}
     /\ awaiting' = awaiting \ {o}
     /\ rejections' = [x \in DOMAIN rejections \cup {o} |->
                         IF x = o THEN e ELSE rejections[x]]
     /\ emitted' = emitTaskCompleted(o, queue'[i], processing')
     /\ UNCHANGED <<running, timers, now, admitted, held, returned,
            managerVars, caught>>

\* processTask when a 'taskCompleted' listener throws: the task and the
\* processing set are written before emit is called, and the exception
\* leaves processTask as a rejection that processQueue's catch handler
\* logs.
TaskResolvedListenerThrows(o, res) ==
  LET i == IndexOf(queue, o)
  IN /\ o \in awaiting
     /\ queue' = [queue EXCEPT ![i].result = res,
                               ![i].status = "completed",
                               ![i].completedAt = SomeDate]
     /\ processing' = processing \ {queue[i].id}
     /\ awaiting' = awaiting \ {o}
     /\ emitted' = emitTaskCompleted(o, queue'[i], processing')
     /\ caught' = caught \cup {o}
     /\ UNCHANGED <<running, timers, now, admitted, rejections, held,
            returned, managerVars>>

\* The listener called before the slot is released: its exception skips
\* the release.
TaskRejectedListenerThrowsFirst(o, e) ==
  LET i == IndexOf(queue, o)
  IN /\ o \in awaiting
     /\ queue' = [queue EXCEPT ![i].status = "failed",
                               ![i].error = errorMessage(e),
                               ![i].completedAt = SomeDate]
     /\ awaiting' = awaiting \ {o}
     /\ rejections' = [x \in DOMAIN rejections \cup {o} |->
                         IF x = o THEN e ELSE rejections[x]]
     /\ emitted' = emitTaskCompleted(o, queue'[i], processing)
     /\ caught' = caught \cup {o}
     /\ UNCHANGED <<processing, running, timers, now, admitted, held,
            returned, managerVars>>

\* The same after the callback rejected with e.
TaskRejectedListenerThrows(o, e) ==
  LET i == IndexOf(queue, o)
  IN /\ o \in awaiting
     /\ queue' = [queue EXCEPT ![i].status = "failed",
                               ![i].error = errorMessage(e),
                               ![i].completedAt = SomeDate]
     /\ processing' = processing \ {queue[i].id}
     /\ awaiting' = awaiting \ {o}
     /\ rejections' = [x \in DOMAIN rejections \cup {o} |->
                         IF x = o THEN e ELSE rejections[x]]
     /\ emitted' = emitTaskCompleted(o, queue'[i], processing')
     /\ caught' = caught \cup {o}
     /\ UNCHANGED <<running, timers, now, admitted, held, returned,
                    managerVars>>

\* A lookup that compares the timestamp part of the id only.
findByTimestamp(q, taskId) ==
  IF \E i \in 1..Len(q) : q[i].id[1] = taskId[1]
  THEN CHOOSE i \in 1..Len(q) :
         /\ q[i].id[1] = taskId[1]
         /\ \A j \in 1..(i - 1) : q[j].id[1] # taskId[1]
  ELSE 0

\* this.queue.find(task => task.id === taskId): index of the first task
\* with that id, 0 when there is none.
find(q, taskId) ==
  IF \E i \in 1..Len(q) : q[i].id = taskId
  THEN CHOOSE i \in 1..Len(q) :
         /\ q[i].id = taskId
         /\ \A j \in 1..(i - 1) : q[j].id # taskId
  ELSE 0

\* getTask(taskId) hands the caller the task object that find returns (ref
\* names the object), or undefined; snap is what the object held then.
getTask(taskId) ==
  /\ held' = IF find(queue, taskId) # 0
             THEN [asked |-> taskId,
                   found |-> TRUE,
                   ref |-> queue[find(queue, taskId)].oid,
                   snap |-> queue[find(queue, taskId)]]
             ELSE [asked |-> taskId, found |-> FALSE, ref |-> 0,
                   snap |-> <<>>]
  /\ UNCHANGED <<queue, processing, running, timers, now, awaiting, admitted,
                 rejections, emitted, caught, returned, managerVars>>

\* The ids a caller may ask getTask for.
TaskIds == (0..MaxTime) \X (1..MaxTasks)

\* The server: the route that submits tasks, the queue, its timers and the
\* work callback.
Next ==
  \/ Start
  \/ Stop
  \/ \E body \in Bodies, t \in DateNow : PostGenerate(body, t)
  \/ TimerFire
  \/ \E o \in awaiting, res \in Results : TaskResolved(o, res)
  \/ \E o \in awaiting, e \in Rejections : TaskRejected(o, e)

Spec == Init /\ [][Next]_vars

\* The queue together with a caller that looks tasks up with getTask.
CallerGetTask == \E id \in TaskIds : getTask(id)

NextCaller == Next \/ CallerGetTask

SpecCaller == Init /\ [][NextCaller]_vars

\* The server with a 'taskCompleted' listener that throws, as one that
\* writes to a store that is down.
NextObserver ==
  \/ Start
  \/ Stop
  \/ \E body \in Bodies, t \in DateNow : PostGenerate(body, t)
  \/ TimerFire
  \/ \E o \in awaiting, res \in Results : TaskResolvedListenerThrows(o, res)
  \/ \E o \in awaiting, e \in Rejections : TaskRejectedListenerThrows(o, e)

SpecObserver == Init /\ [][NextObserver]_vars

\* The status route: one lookup at any moment of the server's run, whose
\* answer is then kept for inspection.
NextLookup ==
  /\ held = NoHandle
  /\ (Next \/ CallerGetTask)

SpecLookup == Init /\ [][NextLookup]_vars

\* The queue used as a component: addTask is called with whatever the
\* caller has.
CallerAddTask == \E task \in Bodies, t \in DateNow : DirectAddTask(task, t)

NextDirect == Next \/ CallerAddTask

SpecDirect == Init /\ [][NextDirect]_vars

\* Scenario A: the priorities of the three submissions, in order.
ScenarioA == <<"low", "high", "medium">>

\* The next submission of scenario A, through addTask.
SubmitScenarioA ==
  /\ Len(queue) < Len(ScenarioA)
  /\ \E t \in DateNow :
       addTask([topic |-> "ai blogging", keywords |-> <<"seo">>,
                priority |-> ScenarioA[Len(queue) + 1]],
               t, RandomSuffix(t))

\* Scenario A on a queue that may be started before, between or after the
\* submissions; the work callback completes.
NextScenarioA ==
  \/ Start
  \/ Stop
  \/ SubmitScenarioA
  \/ TimerFire
  \/ \E o \in awaiting, res \in Results : TaskResolved(o, res)

SpecScenarioA == Init /\ [][NextScenarioA]_vars

\* Counts over the tasks still pending only.
getStatsOfPending ==
  [queueLength |-> Len(queue),
   processing |-> Cardinality(processing),
   byStatus |->
     [st \in Statuses |-> Len(SelectSeq(queue, LAMBDA t : t.status = st))],
   byPriority |->
     [p \in Priorities |->
        Len(SelectSeq(queue,
                      LAMBDA t : t.priority = p /\ t.status = "pending"))]]

\* getStats(): the length of queue.filter(...) for each status and each
\* priority.
getStats ==
  [queueLength |-> Len(queue),
   processing |-> Cardinality(processing),
   byStatus |->
     [st \in Statuses |-> Len(SelectSeq(queue, LAMBDA t : t.status = st))],
   byPriority |->
     [p \in Priorities |-> Len(SelectSeq(queue, LAMBDA t : t.priority = p))]]

\* Scenario D: how many tasks of each priority are submitted.
ScenarioD == [p \in Priorities |-> IF p = "high" THEN 2 ELSE 1]

ScenarioDSize == ScenarioD["high"] + ScenarioD["medium"] + ScenarioD["low"]

\* The queue holds fewer tasks of priority p than scenario D submits.
ScenarioDOpen(p) ==
  Cardinality({i \in 1..Len(queue) : queue[i].priority = p}) < ScenarioD[p]

\* The next submission of scenario D, in any order of priorities.
SubmitScenarioD ==
  \E p \in Priorities, t \in DateNow :
    /\ ScenarioDOpen(p)
    /\ addTask([topic |-> "ai blogging", keywords |-> <<"seo">>,
                priority |-> p],
               t, RandomSuffix(t))

\* Scenario D on a queue that may be started before, between or after the
\* submissions; a work callback that fails throws an Error.
NextScenarioD ==
  \/ Start
  \/ SubmitScenarioD
  \/ TimerFire
  \/ \E o \in awaiting, res \in Results : TaskResolved(o, res)
  \/ \E o \in awaiting, e \in {r \in Rejections : r.isError} :
       TaskRejected(o, e)

SpecScenarioD == Init /\ [][NextScenarioD]_vars

\* The callback of task object o settles, either way.
Settle(o) ==
  \/ \E res \in Results : TaskResolved(o, res)
  \/ \E e \in Rejections : TaskRejected(o, e)

\* Node's event loop runs every timer that is due, and every work callback
\* settles in the end.
Fairness ==
  /\ WF_vars(TimerFire)
  /\ \A o \in 1..MaxTasks : WF_vars(Settle(o))

FairSpec == Init /\ [][Next]_vars /\ Fairness

\* The server when stop() is never called.
NextRunning ==
  \/ Start
  \/ \E body \in Bodies, t \in DateNow : PostGenerate(body, t)
  \/ TimerFire
  \/ \E o \in awaiting, res \in Results : TaskResolved(o, res)
  \/ \E o \in awaiting, e \in Rejections : TaskRejected(o, e)

FairSpecRunning == Init /\ [][NextRunning]_vars /\ Fairness

(***************************************************************************)
(* TaskManager (task-manager.txt): asyncio coroutines on one event loop;   *)
(* each runs from one await to the next without interruption.  The         *)
(* cleanup coroutine, which deletes records finished more than 24 hours    *)
(* ago, is left out.                                                       *)
(***************************************************************************)

\* The state of the TypeScript queue.
queueVars ==
  <<queue, processing, running, timers, now, awaiting, admitted, rejections,
    held, emitted, caught, returned>>

TaskStatus == {"PENDING", "RUNNING", "COMPLETED", "FAILED", "CANCELLED"}

\* The task ids submit_task is called with or draws from uuid4().
ManagerIds == 1..MaxSubmits

\* tasks with the record of task_id replaced by info.
SetTask(task_id, info) ==
  [x \in DOMAIN tasks \cup {task_id} |->
     IF x = task_id THEN info ELSE tasks[x]]

\* execution with the entry of task_id replaced by e.
SetExecution(task_id, e) ==
  [x \in DOMAIN execution \cup {task_id} |->
     IF x = task_id THEN e ELSE execution[x]]

\* submit_task(coroutine, task_id): a ValueError for an id already in
\* tasks; otherwise the PENDING record and the _execute_task coroutine,
\* which has not run yet.
submit_task(task_id) ==
  /\ task_id \notin DOMAIN tasks
  /\ tasks' = SetTask(task_id,
                      [status |-> "PENDING", started_at |-> Undefined,
                       completed_at |-> Undefined, error |-> Undefined,
                       result |-> Undefined])
  /\ execution' = SetExecution(task_id, [at |-> "semaphore", retries |-> 0])
  /\ UNCHANGED <<semaphore, cancelled, queueVars>>

\* _execute_task entering "async with self.semaphore", at its start or
\* after the back-off sleep: it takes a permit and marks the task RUNNING,
\* then awaits the coroutine.
EnterSemaphore(task_id) ==
  /\ task_id \in DOMAIN execution
  /\ execution[task_id].at \in {"semaphore", "sleep"}
  /\ semaphore > 0
  /\ semaphore' = semaphore - 1
  /\ tasks' = SetTask(task_id, [tasks[task_id] EXCEPT
                                 !.status = "RUNNING",
                                 !.started_at = SomeDate])
  /\ execution' = SetExecution(task_id, [execution[task_id] EXCEPT
                                         !.at = "await"])
  /\ UNCHANGED <<cancelled, queueVars>>

\* "result = await coroutine" returns: the task is marked COMPLETED, the
\* permit is given back and _execute_task returns.
CoroutineReturns(task_id) ==
  /\ task_id \in DOMAIN execution
  /\ execution[task_id].at = "await"
  /\ tasks' = SetTask(task_id, [tasks[task_id] EXCEPT
                                 !.status = "COMPLETED",
                                 !.completed_at = SomeDate,
                                 !.result = "result"])
  /\ semaphore' = semaphore + 1
  /\ execution' = SetExecution(task_id, [execution[task_id] EXCEPT
                                         !.at = "returned"])
  /\ UNCHANGED <<cancelled, queueVars>>

\* "await coroutine" raises (a coroutine object awaited a second time
\* raises RuntimeError): the permit is given back on leaving the with
\* block; then retries is incremented and the coroutine either sleeps
\* before the next attempt, the status left as it is, or marks the task
\* FAILED and leaves the loop.
CoroutineRaises(task_id) ==
  LET retries == execution[task_id].retries + 1
  IN /\ task_id \in DOMAIN execution
     /\ execution[task_id].at = "await"
     /\ semaphore' = semaphore + 1
     /\ IF retries <= max_retries
        THEN /\ execution' =
                  SetExecution(task_id, [at |-> "sleep", retries |-> retries])
             /\ UNCHANGED tasks
        ELSE /\ execution' =
                  SetExecution(task_id,
                               [at |-> "returned", retries |-> retries])
             /\ tasks' = SetTask(task_id, [tasks[task_id] EXCEPT
                                            !.status = "FAILED",
                                            !.error = "str(e)",
                                            !.completed_at = SomeDate])
     /\ UNCHANGED <<cancelled, queueVars>>

\* cancel_task(task_id): True, with the status set to CANCELLED, when the
\* task is RUNNING; False otherwise.  The _execute_task coroutine is not
\* touched.
cancel_task(task_id) ==
  IF task_id \in DOMAIN tasks /\ tasks[task_id].status = "RUNNING"
  THEN /\ tasks' = SetTask(task_id, [tasks[task_id] EXCEPT
                                      !.status = "CANCELLED",
                                      !.completed_at = SomeDate])
       /\ cancelled' = cancelled \cup {task_id}
       /\ UNCHANGED <<semaphore, execution, queueVars>>
  ELSE UNCHANGED vars

NextManager ==
  \/ \E task_id \in ManagerIds : submit_task(task_id)
  \/ \E task_id \in ManagerIds : EnterSemaphore(task_id)
  \/ \E task_id \in ManagerIds : CoroutineReturns(task_id)
  \/ \E task_id \in ManagerIds : CoroutineRaises(task_id)
  \/ \E task_id \in ManagerIds : cancel_task(task_id)

SpecManager == Init /\ [][NextManager]_vars

(***************************************************************************)
(* Properties                                                              *)
(***************************************************************************)

Indices == 1..Len(queue)
WithStatus(q, st) == {i \in 1..Len(q) : q[i].status = st}
IsTerminal(st) == st \in {"completed", "failed"}

\* Position of object o in the admission log, 0 when it was never admitted.
AdmittedAt(adm, o) ==
  IF \E k \in 1..Len(adm) : adm[k] = o
  THEN CHOOSE k \in 1..Len(adm) : adm[k] = o
  ELSE 0

\* C1: in every reachable state the processing set holds at most
\* maxConcurrent ids and at most maxConcurrent tasks have status processing.
C1_ConcurrencyCeiling ==
  /\ Cardinality(processing) <= maxConcurrent
  /\ Cardinality(WithStatus(queue, "processing")) <= maxConcurrent

\* The ceiling is reached while the queue runs and a task still waits.
C1_Witness ==
  /\ running
  /\ Cardinality(processing) = maxConcurrent
  /\ Cardinality(WithStatus(queue, "processing")) = maxConcurrent
  /\ WithStatus(queue, "pending") # {}

\* C2: a task is created pending, is never removed, and its status only
\* ever changes pending -> processing, processing -> completed or
\* processing -> failed.
C2_StateMachine ==
  [][/\ \A o \in Oids(queue) :
          /\ o \in Oids(queue')
          /\ LET before == TaskOf(queue, o).status
                 after == TaskOf(queue', o).status
             IN \/ after = before
                \/ before = "pending" /\ after = "processing"
                \/ before = "processing" /\ after \in {"completed", "failed"}
     /\ \A o \in Oids(queue') \ Oids(queue) :
          TaskOf(queue', o).status = "pending"]_vars

\* One task has run to completed and another to failed.
C2_Witness ==
  /\ WithStatus(queue, "completed") # {}
  /\ WithStatus(queue, "failed") # {}

\* C3: when a pass admits a task, no task pending at that moment (pending
\* before the pass and not admitted earlier in it) has a higher priority.
C3_PriorityAdmission ==
  [][\A k \in (Len(admitted) + 1)..Len(admitted') :
       LET earlier == {admitted'[m] : m \in (Len(admitted) + 1)..(k - 1)}
           chosen == TaskOf(queue, admitted'[k])
       IN \A i \in WithStatus(queue, "pending") :
            queue[i].oid \notin earlier =>
              priorityValues(queue[i].priority)
                <= priorityValues(chosen.priority)]_vars

\* A task was admitted while a task submitted before it, of lower
\* priority, still waits.
C3_Witness ==
  \E i, j \in Indices :
    /\ queue[i].status # "pending"
    /\ queue[j].status = "pending"
    /\ queue[j].oid < queue[i].oid
    /\ priorityValues(queue[j].priority) < priorityValues(queue[i].priority)

\* C4: of two tasks of equal priority the one added first is admitted
\* first: the later one is never admitted while the earlier one waits, and
\* the earlier one stands first in the admission log.
C4_FifoTieBreak ==
  \A i, j \in Indices :
    (queue[i].priority = queue[j].priority /\ queue[i].oid < queue[j].oid
       /\ queue[j].status # "pending") =>
      /\ queue[i].status # "pending"
      /\ AdmittedAt(admitted, queue[i].oid) > 0
      /\ AdmittedAt(admitted, queue[i].oid)
           < AdmittedAt(admitted, queue[j].oid)

\* Two tasks of equal priority created in the same millisecond were both
\* admitted.
C4_Witness ==
  \E i, j \in Indices :
    /\ queue[i].oid < queue[j].oid
    /\ queue[i].priority = queue[j].priority
    /\ queue[i].createdAt = queue[j].createdAt
    /\ queue[i].status # "pending"
    /\ queue[j].status # "pending"

\* C5: dispatching a task adds its id to the processing set, and the step
\* in which its callback settles, rejected or resolved, gives the task
\* its terminal status and takes exactly that id out again.
C5_SlotRelease ==
  [][\A o \in Oids(queue) :
       LET before == TaskOf(queue, o)
           after == TaskOf(queue', o)
       IN /\ (before.status = "pending" /\ after.status = "processing") =>
               (before.id \notin processing /\ before.id \in processing')
          /\ (o \in awaiting /\ o \notin awaiting') =>
               /\ IsTerminal(after.status)
               /\ o \in DOMAIN rejections' => after.status = "failed"
               /\ before.id \in processing
               /\ processing' = processing \ {before.id}
               /\ Cardinality(processing') = Cardinality(processing) - 1]_vars

\* A task has failed and holds no slot.
C5_Witness ==
  \E i \in Indices :
    /\ queue[i].status = "failed"
    /\ queue[i].id \notin processing
    /\ queue[i].oid \notin awaiting

\* The task getTask(id) reports for the id of task object o.
Reported(o) == queue[find(queue, TaskOf(queue, o).id)]

\* C6 as stated: getTask reports every task whose callback rejected as
\* failed, started and completed, with the error field equal to the message
\* the callback rejected with.
C6_ErrorIsRejectionMessage ==
  \A o \in DOMAIN rejections :
    /\ Reported(o).status = "failed"
    /\ Reported(o).startedAt # Undefined
    /\ Reported(o).completedAt # Undefined
    /\ Reported(o).error = rejections[o].message

\* C6 amended: getTask reports every task whose callback rejected as
\* failed, started and completed; the error field is the message of the
\* rejection when that is an Error, and 'Unknown error' when it is not.
C6_CapturedError ==
  \A o \in DOMAIN rejections :
    /\ Reported(o).oid = o
    /\ Reported(o).status = "failed"
    /\ Reported(o).startedAt # Undefined
    /\ Reported(o).completedAt # Undefined
    /\ rejections[o].isError => Reported(o).error = rejections[o].message
    /\ ~rejections[o].isError => Reported(o).error = "Unknown error"

\* Scenario C: the callback rejected with Error("upstream timeout") and
\* getTask reports that message.
C6_Witness ==
  \E o \in DOMAIN rejections :
    /\ rejections[o] = [isError |-> TRUE, message |-> "upstream timeout"]
    /\ Reported(o).status = "failed"
    /\ Reported(o).error = "upstream timeout"

\* C7: the work callback runs at most once per task: no task object is
\* handed to processTask twice, and the tasks handed over are exactly
\* those that have left pending.
C7_ExecuteOnce ==
  /\ \A k, m \in 1..Len(admitted) : admitted[k] = admitted[m] => k = m
  /\ \A i \in Indices :
       queue[i].status # "pending" <=> AdmittedAt(admitted, queue[i].oid) > 0

\* A task failed, and a later pass admitted another task and not the
\* failed one again.
C7_Witness ==
  \E i, j \in Indices :
    /\ queue[i].status = "failed"
    /\ AdmittedAt(admitted, queue[i].oid) > 0
    /\ AdmittedAt(admitted, queue[i].oid)
         < AdmittedAt(admitted, queue[j].oid)

\* C8: what a caller reads from a value getTask returned stays what it
\* was when getTask returned it.
C8_ReturnedValueIsSnapshot ==
  held.found => TaskOf(queue, held.ref) = held.snap

\* C9: no step that leaves the queue stopped admits a task; stop() itself
\* touches no task and no slot; and a task in flight can settle whether
\* or not the queue runs.
C9_StopSemantics ==
  /\ [][/\ ~running' =>
            (/\ admitted' = admitted
             /\ \A o \in Oids(queue) :
                  TaskOf(queue, o).status = "pending" =>
                    TaskOf(queue', o).status = "pending")
        /\ (running /\ ~running') =>
            UNCHANGED <<queue, processing, awaiting>>]_vars
  /\ [](\A i \in WithStatus(queue, "processing") :
          /\ queue[i].oid \in awaiting
          /\ ENABLED Settle(queue[i].oid))

\* The queue is stopped with one task in flight and another waiting.
C9_Witness ==
  /\ ~running
  /\ awaiting # {}
  /\ WithStatus(queue, "processing") # {}
  /\ WithStatus(queue, "pending") # {}

\* C10: once a task has failed, the tasks that wait while the queue runs
\* are all admitted in the end, unless the queue is stopped first.
C10_FailureContainment ==
  (/\ running
   /\ WithStatus(queue, "failed") # {}
   /\ WithStatus(queue, "pending") # {})
    ~> (~running \/ WithStatus(queue, "pending") = {})

\* A task failed, the queue still runs, and a task admitted after the
\* failure has completed.
C10_Witness ==
  /\ running
  /\ timers > 0
  /\ \E i, j \in Indices :
       /\ queue[i].status = "failed"
       /\ queue[j].status = "completed"
       /\ AdmittedAt(admitted, queue[i].oid)
            < AdmittedAt(admitted, queue[j].oid)

\* C11: every 'taskCompleted' event was emitted for a task that then had
\* a terminal status, its completedAt set and its id out of the processing
\* set; a task has its one event exactly when it has settled, whether it
\* completed or failed, and no task has more than one.
C11_CompletionOrder ==
  /\ \A o \in DOMAIN emitted :
       /\ emitted[o].count = 1
       /\ IsTerminal(emitted[o].task.status)
       /\ emitted[o].task.completedAt # Undefined
       /\ ~emitted[o].slotHeld
  /\ \A i \in Indices :
       IsTerminal(queue[i].status) <=> queue[i].oid \in DOMAIN emitted

\* One event was emitted for a completed task and one for a failed task.
C11_Witness ==
  \E o, p \in DOMAIN emitted :
    /\ emitted[o].task.status = "completed"
    /\ emitted[p].task.status = "failed"
    /\ emitted[o].count = 1
    /\ emitted[p].count = 1

\* The task object the step from queue to queue' added, 0 when none.
Added == IF Len(queue') = Len(queue) + 1 THEN Len(queue) + 1 ELSE 0

\* C12: the step that adds a task leaves it in the queue pending, with no
\* startedAt, completedAt, result or error, and changes no other task,
\* the processing set, the tasks in flight or the admission log.
C12_AddTaskNonBlocking ==
  [][Added # 0 =>
       /\ Added \in Oids(queue')
       /\ TaskOf(queue', Added).status = "pending"
       /\ TaskOf(queue', Added).startedAt = Undefined
       /\ TaskOf(queue', Added).completedAt = Undefined
       /\ TaskOf(queue', Added).result = Undefined
       /\ TaskOf(queue', Added).error = Undefined
       /\ \A o \in Oids(queue) : TaskOf(queue', o) = TaskOf(queue, o)
       /\ UNCHANGED <<processing, awaiting, admitted, emitted>>]_vars

\* A task was added to a running queue with a free slot and still waits.
C12_Witness ==
  /\ running
  /\ timers > 0
  /\ Cardinality(processing) < maxConcurrent
  /\ WithStatus(queue, "pending") # {}

\* C13: no task in the queue has a missing or empty topic or an empty
\* keyword set.
C13_InvalidRejected ==
  \A i \in Indices :
    /\ queue[i].topic # Undefined
    /\ queue[i].topic # ""
    /\ queue[i].keywords # <<>>

\* C14: a lookup changes nothing of the queue, answers "not found" exactly
\* when no task carries the id asked for, and otherwise answers with a
\* task that carries it.
C14_LookupUnknownId ==
  [][held' # held =>
       /\ UNCHANGED <<queue, processing, running, timers, now, awaiting,
                      admitted, rejections, emitted, caught>>
       /\ ~held'.found <=> (\A i \in Indices : queue[i].id # held'.asked)
       /\ held'.found => held'.snap.id = held'.asked]_vars

\* A lookup of an id no task carries was answered "not found" while the
\* queue holds tasks.
C14_Witness ==
  /\ held.asked # <<>>
  /\ ~held.found
  /\ queue # <<>>
  /\ \A i \in Indices : queue[i].id # held.asked

\* The priorities of the tasks in the admission log, in admission order.
AdmittedPriorities ==
  [k \in 1..Len(admitted) |-> TaskOf(queue, admitted[k]).priority]

\* C15 as stated: when the three tasks of scenario A have been admitted,
\* they were admitted in the order high, medium, low.
C15_ScenarioA ==
  Len(admitted) = Len(ScenarioA) =>
    AdmittedPriorities = <<"high", "medium", "low">>

\* C15, amended: once the three tasks of scenario A are all submitted and
\* none has been admitted yet, they are admitted in the order high,
\* medium, low.
C15_ScenarioASubmittedFirst ==
  []((Len(queue) = Len(ScenarioA) /\ admitted = <<>>) =>
       [](/\ Len(admitted) >= 1 => AdmittedPriorities[1] = "high"
          /\ Len(admitted) >= 2 => AdmittedPriorities[2] = "medium"
          /\ Len(admitted) >= 3 => AdmittedPriorities[3] = "low"))

\* The three tasks were admitted high, medium, low and all completed.
C15_Witness ==
  /\ Len(queue) = Len(ScenarioA)
  /\ AdmittedPriorities = <<"high", "medium", "low">>
  /\ \A i \in Indices : queue[i].status = "completed"

\* The tasks of scenario D are all submitted and none has finished.
ScenarioDSubmitted ==
  /\ Len(queue) = ScenarioDSize
  /\ \A i \in Indices : ~IsTerminal(queue[i].status)

C18_FieldsFollowStatus ==
  \A i \in Indices :
    /\ queue[i].startedAt # Undefined <=> queue[i].status # "pending"
    /\ queue[i].completedAt # Undefined <=> IsTerminal(queue[i].status)
    /\ queue[i].error # Undefined <=> queue[i].status = "failed"

\* A failed task holds an error and both dates next to a task not yet
\* finished.
C18_Witness ==
  \E i, j \in Indices :
    /\ queue[i].status = "failed"
    /\ queue[i].error # Undefined
    /\ queue[i].completedAt # Undefined
    /\ ~IsTerminal(queue[j].status)

\* C19: a completed task holds the result its callback produced; a failed
\* or pending task holds none.
C19_ResultOnlyOnSuccess ==
  \A i \in Indices :
    /\ queue[i].status = "completed" => queue[i].result \in Results
    /\ queue[i].status \in {"failed", "pending"} =>
         queue[i].result = Undefined

\* A completed task with its result next to a failed task without one.
C19_Witness ==
  \E i, j \in Indices :
    /\ queue[i].status = "completed"
    /\ queue[i].result \in Results
    /\ queue[j].status = "failed"
    /\ queue[j].result = Undefined

\* A task waits and a slot is free.
CanAdmit == FirstPending(queue) # 0 /\ CanProcessMore(queue, processing)

\* C20: the step in which a 'taskCompleted' listener throws leaves the
\* task terminal with completedAt (and error when failed), its id out of
\* the processing set, and running and the pending timers as they were;
\* such a task stays so ever after, and on a running queue a pass that
\* admits a waiting task into a free slot remains possible.
C20_ObserverFailure ==
  /\ [][\A o \in caught' \ caught :
          /\ IsTerminal(TaskOf(queue', o).status)
          /\ TaskOf(queue', o).completedAt # Undefined
          /\ TaskOf(queue', o).status = "failed" =>
               TaskOf(queue', o).error # Undefined
          /\ TaskOf(queue', o).id \notin processing'
          /\ UNCHANGED <<running, timers, admitted>>]_vars
  /\ [][\A o \in caught :
          /\ TaskOf(queue', o) = TaskOf(queue, o)
          /\ TaskOf(queue', o).id \notin processing']_vars
  /\ []((caught # {} /\ running /\ CanAdmit) =>
          ENABLED (TimerFire /\ admitted' # admitted))

\* After a listener threw for a failed task, the running queue has
\* admitted a further task.
C20_Witness ==
  \E o \in caught :
    /\ TaskOf(queue, o).status = "failed"
    /\ running
    /\ AdmittedAt(admitted, o) # 0
    /\ AdmittedAt(admitted, o) < Len(admitted)

\* C21: every id addTask returned is the id of a task in the queue, the
\* one that call created, whatever its status, and the queue holds as
\* many tasks as addTask was called.
C21_NeverDestroyed ==
  /\ Len(queue) = Len(returned)
  /\ \A k \in 1..Len(returned) :
       /\ find(queue, returned[k]) # 0
       /\ queue[find(queue, returned[k])].oid = k

\* Two addTask calls returned; the task of one has finished and is still
\* found by its id.
C21_Witness ==
  /\ Len(returned) >= 2
  /\ \E k \in 1..Len(returned) :
       /\ find(queue, returned[k]) # 0
       /\ IsTerminal(queue[find(queue, returned[k])].status)

\* A step in which processQueue runs on a running queue: start(), or a
\* timer firing while running is set.
PassOnRunningQueue == Start \/ (running /\ TimerFire)

Min(a, b) == IF a <= b THEN a ELSE b

C23_EventualCompletion ==
  (/\ running
   /\ \E i \in Indices : ~IsTerminal(queue[i].status))
    ~> (/\ \A i \in Indices : IsTerminal(queue[i].status)
        /\ processing = {}
        /\ awaiting = {})

\* All the tasks the bound allows have finished on a running queue with
\* an empty processing set.
C23_Witness ==
  /\ running
  /\ Len(queue) = MaxTasks
  /\ \A i \in Indices : IsTerminal(queue[i].status)
  /\ processing = {}

\* C24: the step that adds a task to a running queue with a free slot and
\* no other task waiting leaves the new task admitted.
C24_AddTaskTriggersPass ==
  [][(/\ Added # 0
      /\ running
      /\ Cardinality(processing) < maxConcurrent
      /\ WithStatus(queue, "pending") = {})
       => TaskOf(queue', Added).status = "processing"]_vars

\* C25: queueLength of getStats is the number of pending tasks and
\* processing of getStats the number of tasks in flight.
C25_PendingCount ==
  /\ getStats.queueLength = Cardinality(WithStatus(queue, "pending"))
  /\ getStats.processing = Cardinality(awaiting)

\* C26: the queue never holds more than maxQueueSize tasks.
C26_QueueSizeLimit == Len(queue) <= maxQueueSize

\* C27: the processing set holds exactly the ids of the tasks whose status
\* is processing, and getStats reports the same number for both.
C27_ProcessingSetMatchesStatus ==
  /\ processing = {queue[i].id : i \in WithStatus(queue, "processing")}
  /\ getStats.processing = getStats.byStatus["processing"]

\* A task is in the processing set while another one has completed and
\* left it.
C27_Witness ==
  /\ processing # {}
  /\ \E i \in Indices :
       /\ queue[i].status = "completed"
       /\ queue[i].id \notin processing

\* C28: at most one processQueue timer is outstanding.
C28_SinglePollingChain == timers <= 1

\* C29: at most max_concurrent tasks of the TaskManager have the status
\* RUNNING.
C29_RunningBound ==
  Cardinality({t \in DOMAIN tasks : tasks[t].status = "RUNNING"})
    <= max_concurrent

\* C30: a task for which cancel_task returned True has the status
\* CANCELLED.
C30_CancelIsTerminal ==
  \A t \in cancelled : tasks[t].status = "CANCELLED"

====
